---- MODULE Spec2Model ----
(***************************************************************************)
(* State-synchronisation and message-routing bus of the openGB server      *)
(* (src/opengb/server.py): the two printer queues, the cached printer      *)
(* state, the websocket client registry, the JSON-RPC command handler and  *)
(* the periodic printer-event processor.                                   *)
(***************************************************************************)
EXTENDS Integers, Sequences, FiniteSets, TLC

(***************************************************************************)
(* Bounds of the model.                                                    *)
(***************************************************************************)
\* messages the printer process puts on FROM_PRINTER during a run
MaxProduced == 2
\* messages waiting on TO_PRINTER at one time
MaxOutbound == 2

\* websocket handler objects (one per client connection)
Sessions == {"s1", "s2"}

(***************************************************************************)
(* Python values.  A value is a record tagged with its Python type, so     *)
(* that None, 0, False and a missing key stay distinct.                    *)
(***************************************************************************)
PyNone == [py |-> "NoneType"]
PyInt(n) == [py |-> "int", v |-> n]
PyBool(b) == [py |-> "bool", v |-> b]
PyStr(s) == [py |-> "str", v |-> s]
PyList(q) == [py |-> "list", v |-> q]
PyDict(f) == [py |-> "dict", v |-> f]
\* a member of the enum opengb.printer.State
PyState(name) == [py |-> "State", v |-> name]

\* the empty mapping (a function with the empty domain)
EmptyMap == [k \in {} |-> PyNone]

(***************************************************************************)
(* JSON texts.  A text is a record tagged with its JSON kind; JInvalid is  *)
(* a payload that is no JSON text at all (a truncated line).               *)
(***************************************************************************)
JNull == [json |-> "null"]
JNum(n) == [json |-> "number", v |-> n]
JBool(b) == [json |-> "bool", v |-> b]
JStr(s) == [json |-> "string", v |-> s]
JArr(q) == [json |-> "array", v |-> q]
JObj(f) == [json |-> "object", v |-> f]
JInvalid == [json |-> "invalid"]

\* opengb.printer.State: the members and the values they are built from
StateNames ==
    [disconnected |-> "DISCONNECTED", ready |-> "READY", printing |-> "PRINTING",
     paused |-> "PAUSED", error |-> "ERROR"]

\* the value of a member (the inverse of StateNames)
StateValue(name) == CHOOSE val \in DOMAIN StateNames : StateNames[val] = name

\* outcome of a Python expression: the value, or the exception it raises
Ok(val) == [exc |-> "none", val |-> val]
Raise(e) == [exc |-> e, val |-> PyNone]

\* State(value): the member with that value; ValueError when there is none
State(val) ==
    IF val.py = "str" /\ val.v \in DOMAIN StateNames
    THEN Ok(PyState(StateNames[val.v]))
    ELSE Raise("ValueError")

\* StateEncoder.default: a State member is encoded by its value
StateEncoder(o) == JStr(StateValue(o.v))

\* json.dumps(obj, cls=StateEncoder)
RECURSIVE json_dumps(_)
json_dumps(o) ==
    CASE o.py = "NoneType" -> JNull
      [] o.py = "int" -> JNum(o.v)
      [] o.py = "bool" -> JBool(o.v)
      [] o.py = "str" -> JStr(o.v)
      [] o.py = "list" -> JArr([i \in DOMAIN o.v |-> json_dumps(o.v[i])])
      [] o.py = "dict" -> JObj([k \in DOMAIN o.v |-> json_dumps(o.v[k])])
      [] o.py = "State" -> StateEncoder(o)

\* json.loads(text): ValueError on a text that is not JSON
RECURSIVE json_decode(_)
json_decode(j) ==
    CASE j.json = "null" -> PyNone
      [] j.json = "number" -> PyInt(j.v)
      [] j.json = "bool" -> PyBool(j.v)
      [] j.json = "string" -> PyStr(j.v)
      [] j.json = "array" -> PyList([i \in DOMAIN j.v |-> json_decode(j.v[i])])
      [] j.json = "object" -> PyDict([k \in DOMAIN j.v |-> json_decode(j.v[k])])

json_loads(j) == IF j.json = "invalid" THEN Raise("ValueError") ELSE Ok(json_decode(j))

\* obj[key] with a string key: KeyError on a dict without the key, TypeError
\* on anything that is not a dict (None, a number, a string, a list)
Subscript(o, key) ==
    IF o.py = "dict"
    THEN IF key \in DOMAIN o.v THEN Ok(o.v[key]) ELSE Raise("KeyError")
    ELSE Raise("TypeError")

(***************************************************************************)
(* State.                                                                  *)
(***************************************************************************)
VARIABLES
    CLIENTS,        \* the list of websocket handlers that are open
    TO_PRINTER,     \* queue server -> printer process (JSON texts)
    FROM_PRINTER,   \* queue printer process -> server (JSON texts)
    PRINTER,        \* local cache of the printer state
    status,         \* per handler: CONNECTING, OPEN or CLOSED
    conn,           \* per handler: is its stream still "up" or "dropped"
    received,       \* per handler: the messages its client has been sent
    produced,       \* how many messages the printer process has put
    op,             \* the handler that ran last, with its arguments
    ret,            \* what it returned
    raised,         \* the exception that escaped from it ("none" if none)
    emitted         \* the records it wrote to LOGGER

vars == <<CLIENTS, TO_PRINTER, FROM_PRINTER, PRINTER, status, conn, received,
          produced, op, ret, raised, emitted>>

\* the initial value of PRINTER
PRINTER0 ==
    [state |-> PyState("DISCONNECTED"),
     temp |-> PyDict([bed |-> PyInt(0), nozzle1 |-> PyInt(0), nozzle2 |-> PyInt(0)]),
     progress |-> PyDict([current |-> PyInt(0), total |-> PyInt(0)])]

Init ==
    /\ CLIENTS = <<>>
    /\ TO_PRINTER = <<>>
    /\ FROM_PRINTER = <<>>
    /\ PRINTER = PRINTER0
    /\ status = [s \in Sessions |-> "CONNECTING"]
    /\ conn = [s \in Sessions |-> "up"]
    /\ received = [s \in Sessions |-> <<>>]
    /\ produced = 0
    /\ op = [name |-> "init"]
    /\ ret = PyNone
    /\ raised = "none"
    /\ emitted = <<>>

(***************************************************************************)
(* MessageHandler: the JSON-RPC methods.                                   *)
(***************************************************************************)
\* set_temp_dict with an unspecified temperature coerced to 0
set_temp_dict_zero(bed, nozzle1, nozzle2) ==
    LET num(x) == IF x = PyNone THEN PyInt(0) ELSE x IN
    PyDict([method |-> PyStr("set_temp"),
            params |-> PyDict([bed |-> num(bed), nozzle1 |-> num(nozzle1),
                               nozzle2 |-> num(nozzle2)])])

\* the dict set_temp builds (lines 74-81), before json.dumps
set_temp_dict(bed, nozzle1, nozzle2) ==
    PyDict([method |-> PyStr("set_temp"),
            params |-> PyDict([bed |-> bed, nozzle1 |-> nozzle1, nozzle2 |-> nozzle2])])

\* set_temp coalescing with the command that is already waiting
set_temp_coalesce(queue, bed, nozzle1, nozzle2) ==
    IF queue = <<>>
    THEN <<json_dumps(set_temp_dict(bed, nozzle1, nozzle2))>>
    ELSE [queue EXCEPT ![Len(queue)] = json_dumps(set_temp_dict(bed, nozzle1, nozzle2))]

\* MessageHandler.set_temp(bed=None, nozzle1=None, nozzle2=None): the queue
\* after TO_PRINTER.put(json.dumps(...)); the method then returns True
set_temp(queue, bed, nozzle1, nozzle2) ==
    Append(queue, json_dumps(set_temp_dict(bed, nozzle1, nozzle2)))

\* the public attributes of MessageHandler, which Dispatcher(message_handler)
\* exposes as JSON-RPC methods
MessageHandlerMethods == {"set_temp"}

\* the named parameters of set_temp
SetTempParams == {"bed", "nozzle1", "nozzle2"}

\* a keyword argument of a call: the supplied value, or the default
Kwarg(kwargs, key, default) == IF key \in DOMAIN kwargs THEN kwargs[key] ELSE default

\* JSON-RPC replies of JSONRPCResponseManager.handle
RpcResult(val) == JObj([result |-> json_dumps(val)])
RpcError(code) == JObj([error |-> JObj([code |-> JNum(code)])])

\* the JSON-RPC error codes: parse error, invalid request, method not found,
\* invalid params
ParseError == 0 - 32700
InvalidRequest == 0 - 32600
MethodNotFound == 0 - 32601
InvalidParams == 0 - 32602

\* WebSocketHandler.on_message(message): the outcome of
\* JSONRPCResponseManager.handle(message, self.dispatcher), as
\* [queue |-> TO_PRINTER afterwards, response |-> response.json]
handle(message, queue) ==
    LET req == json_loads(message) IN
    IF req.exc # "none"
    THEN [queue |-> queue, response |-> RpcError(ParseError)]
    ELSE IF req.val.py # "dict" \/ ~("method" \in DOMAIN req.val.v)
    THEN [queue |-> queue, response |-> RpcError(InvalidRequest)]
    ELSE LET method == req.val.v["method"]
             kwargs == IF "params" \in DOMAIN req.val.v /\ req.val.v["params"].py = "dict"
                       THEN req.val.v["params"].v ELSE EmptyMap
         IN IF ~(method.py = "str" /\ method.v \in MessageHandlerMethods)
            THEN [queue |-> queue, response |-> RpcError(MethodNotFound)]
            ELSE IF ~(DOMAIN kwargs \subseteq SetTempParams)
            THEN [queue |-> queue, response |-> RpcError(InvalidParams)]
            ELSE [queue |-> set_temp(queue, Kwarg(kwargs, "bed", PyNone),
                                     Kwarg(kwargs, "nozzle1", PyNone),
                                     Kwarg(kwargs, "nozzle2", PyNone)),
                  response |-> RpcResult(PyBool(TRUE))]

\* a log record
LogRecord(level, by) == [level |-> level, by |-> by]

\* the target temperatures clients ask for in this model, per parameter
TempValues ==
    [bed |-> {JNum(0), JNum(100)}, nozzle1 |-> {JNum(200)}, nozzle2 |-> {JNum(210)}]

\* the requests clients send in this model
SetTempRequests ==
    { JObj([method |-> JStr("set_temp"), params |-> JObj(p)]) :
        p \in UNION { { f \in [K -> UNION { TempValues[k] : k \in K }] :
                            \A k \in K : f[k] \in TempValues[k] } :
                        K \in SUBSET SetTempParams } }

MotionRequests ==
    { JObj([method |-> JStr("move_head_relative"),
            params |-> JObj([y |-> JNum(0 - 4), z |-> JNum(2)])]),
      JObj([method |-> JStr("home_head"),
            params |-> JObj([y |-> JBool(TRUE), z |-> JBool(FALSE)])]) }

InvalidRequests ==
    { JObj([method |-> JStr("set_temp"), params |-> JObj([bed |-> JNum(100), fan |-> JNum(1)])]),
      JInvalid }

Requests == SetTempRequests \cup MotionRequests \cup InvalidRequests

on_message(s, message) ==
    /\ status[s] = "OPEN"
    /\ conn[s] = "up"
    /\ Len(TO_PRINTER) < MaxOutbound
    /\ LET r == handle(message, TO_PRINTER) IN
        /\ TO_PRINTER' = r.queue
        /\ ret' = r.response
    /\ op' = [name |-> "on_message", message |-> message]
    /\ raised' = "none"
    /\ emitted' = <<LogRecord("DEBUG", "on_message"), LogRecord("DEBUG", "on_message")>>
    /\ UNCHANGED <<CLIENTS, FROM_PRINTER, PRINTER, status, conn, received, produced>>

\* the printer process takes the next command from TO_PRINTER
PrinterGet ==
    /\ TO_PRINTER # <<>>
    /\ TO_PRINTER' = Tail(TO_PRINTER)
    /\ op' = [name |-> "printer_get"]
    /\ ret' = PyNone
    /\ raised' = "none"
    /\ emitted' = <<>>
    /\ UNCHANGED <<CLIENTS, FROM_PRINTER, PRINTER, status, conn, received, produced>>

(***************************************************************************)
(* WebSocketHandler: the registry of clients.                              *)
(***************************************************************************)
\* the message of open() built from the state the server started with
state_message_stale(state) ==
    json_dumps(PyDict([cmd |-> PyStr("STATE"), new |-> PyState("DISCONNECTED")]))

\* the message open() sends: json.dumps({'cmd': 'STATE', 'new': state},
\* cls=StateEncoder)
state_message(state) == json_dumps(PyDict([cmd |-> PyStr("STATE"), new |-> state]))

\* list.remove(x): the list without the first x
RECURSIVE list_remove(_, _)
list_remove(list, x) ==
    IF list = <<>> THEN <<>>
    ELSE IF Head(list) = x THEN Tail(list)
    ELSE <<Head(list)>> \o list_remove(Tail(list), x)

\* is x an element of the list
InList(list, x) == \E i \in DOMAIN list : list[i] = x

\* WebSocketHandler.open()
open(s) ==
    /\ status[s] = "CONNECTING"
    /\ CLIENTS' = Append(CLIENTS, s)
    /\ received' = [received EXCEPT ![s] = Append(@, state_message(PRINTER.state))]
    /\ status' = [status EXCEPT ![s] = "OPEN"]
    /\ op' = [name |-> "open", session |-> s]
    /\ ret' = PyNone
    /\ raised' = "none"
    /\ emitted' = <<LogRecord("INFO", "open")>>
    /\ UNCHANGED <<TO_PRINTER, FROM_PRINTER, PRINTER, conn, produced>>

\* the connection of an open client drops; tornado calls on_close() from a
\* later callback of the event loop, so other callbacks can run in between
connection_lost(s) ==
    /\ status[s] = "OPEN"
    /\ conn[s] = "up"
    /\ conn' = [conn EXCEPT ![s] = "dropped"]
    /\ op' = [name |-> "connection_lost", session |-> s]
    /\ ret' = PyNone
    /\ raised' = "none"
    /\ emitted' = <<>>
    /\ UNCHANGED <<CLIENTS, TO_PRINTER, FROM_PRINTER, PRINTER, status, received, produced>>

\* the list after CLIENTS.remove(self), and whether remove raised
clients_remove(list, s) ==
    IF InList(list, s)
    THEN [list |-> list_remove(list, s), exc |-> "none"]
    ELSE [list |-> list, exc |-> "ValueError"]

\* WebSocketHandler.on_close(): tornado calls it when the connection closes,
\* also for a connection that closed before open() ran; a handler that has
\* left can be closed again
on_close(s) ==
    /\ status[s] \in {"CONNECTING", "OPEN", "CLOSED"}
    /\ LET r == clients_remove(CLIENTS, s) IN
        /\ CLIENTS' = r.list
        /\ raised' = r.exc
    /\ status' = [status EXCEPT ![s] = "CLOSED"]
    /\ conn' = [conn EXCEPT ![s] = "dropped"]
    /\ op' = [name |-> "on_close", session |-> s]
    /\ ret' = PyNone
    /\ emitted' = <<LogRecord("INFO", "on_close")>>
    /\ UNCHANGED <<TO_PRINTER, FROM_PRINTER, PRINTER, received, produced>>

\* a status handler that writes the state alone
status_get_partial ==
    /\ ret' = json_dumps(PyDict([state |-> PRINTER.state]))
    /\ op' = [name |-> "status_get"]
    /\ raised' = "none"
    /\ emitted' = <<>>
    /\ UNCHANGED <<CLIENTS, TO_PRINTER, FROM_PRINTER, PRINTER, status, conn, received, produced>>

\* StatusHandler.get(): writes json.dumps(PRINTER, cls=StateEncoder)
status_get ==
    /\ ret' = json_dumps(PyDict(PRINTER))
    /\ op' = [name |-> "status_get"]
    /\ raised' = "none"
    /\ emitted' = <<>>
    /\ UNCHANGED <<CLIENTS, TO_PRINTER, FROM_PRINTER, PRINTER, status, conn, received, produced>>

(***************************************************************************)
(* Broadcast.                                                              *)
(***************************************************************************)
\* each.write_message(message) on handler s: the text is delivered when the
\* stream is up; on a dropped stream tornado either raises
\* WebSocketClosedError or drops the text, depending on its version
write_message(recv, s, text, closedRaises) ==
    IF conn[s] = "up"
    THEN [received |-> [recv EXCEPT ![s] = Append(@, text)], exc |-> "none"]
    ELSE [received |-> recv,
          exc |-> IF closedRaises THEN "WebSocketClosedError" ELSE "none"]

\* the loop of broadcast_message over the rest of CLIENTS: it ends at the
\* first write_message that raises
RECURSIVE broadcast_loop(_, _, _, _)
broadcast_loop(list, recv, text, closedRaises) ==
    IF list = <<>> THEN [received |-> recv, exc |-> "none"]
    ELSE LET w == write_message(recv, Head(list), text, closedRaises) IN
         IF w.exc # "none" THEN w
         ELSE broadcast_loop(Tail(list), w.received, text, closedRaises)

\* broadcast_message(message): write_message encodes a dict as JSON
broadcast_message(message, closedRaises) ==
    broadcast_loop(CLIENTS, received, json_dumps(message), closedRaises)

(***************************************************************************)
(* The reducer and the periodic event processor.                           *)
(***************************************************************************)
\* the assignment merging the params into the cached value key by key
merge_field(old, new) ==
    IF old.py = "dict" /\ new.py = "dict"
    THEN PyDict([k \in DOMAIN old.v \cup DOMAIN new.v |->
                    IF k \in DOMAIN new.v THEN new.v[k] ELSE old.v[k]])
    ELSE new

\* PRINTER['temp'] = event['params'] and PRINTER['progress'] = event['params']:
\* the value the field holds afterwards
replace_field(old, new) == new

\* the state assignment also putting the progress back to its start
set_state_reset(printer, state) ==
    [printer EXCEPT !.state = state, !.progress = PRINTER0.progress]

\* PRINTER['state'] = State(...): the cache afterwards
set_state(printer, state) == [printer EXCEPT !.state = state]

\* the try block of process_event (lines 140-149): the new PRINTER, or the
\* exception the block raises
process_event_body(event, printer) ==
    LET method == Subscript(event, "method")
        params == Subscript(event, "params")
        new == Subscript(params.val, "new")
        state == State(new.val)
        same == [printer |-> printer, exc |-> "none"]
        fail(e) == [printer |-> printer, exc |-> e]
    IN IF method.exc # "none" THEN fail(method.exc)
       ELSE IF method.val = PyStr("state")
            THEN IF params.exc # "none" THEN fail(params.exc)
                 ELSE IF new.exc # "none" THEN fail(new.exc)
                 ELSE IF state.exc # "none" THEN fail(state.exc)
                 ELSE [printer |-> set_state(printer, state.val), exc |-> "none"]
       ELSE IF method.val = PyStr("temp")
            THEN IF params.exc # "none" THEN fail(params.exc)
                 ELSE [printer |-> [printer EXCEPT !.temp = replace_field(@, params.val)],
                       exc |-> "none"]
       ELSE IF method.val = PyStr("progress")
            THEN IF params.exc # "none" THEN fail(params.exc)
                 ELSE [printer |-> [printer EXCEPT !.progress = replace_field(@, params.val)],
                       exc |-> "none"]
       ELSE same

\* the exceptions the except clause of process_event catches
process_event_caught == {"KeyError"}

\* process_event(event): [printer, exc that escapes, emitted log records]
process_event(event, printer) ==
    LET r == process_event_body(event, printer) IN
    IF r.exc \in process_event_caught
    THEN [printer |-> r.printer, exc |-> "none",
          emitted |-> <<LogRecord("ERROR", "process_event")>>]
    ELSE [printer |-> r.printer, exc |-> r.exc, emitted |-> <<>>]

\* LOGGER.log(level, msg): TypeError unless level is an integer
logger_log(level, msg) ==
    IF level.py = "int"
    THEN [exc |-> "none", emitted |-> <<[level |-> "PRINTER", by |-> "printer", lvl |-> level, msg |-> msg]>>]
    ELSE [exc |-> "TypeError", emitted |-> <<>>]

\* the test of line 163 never taking the log branch
is_log_never(method) == FALSE

\* event['method'] == 'log'
is_log(method) == method = PyStr("log")

\* the try block of process_printer_events (lines 162-167) on the text taken
\* from FROM_PRINTER: [printer, received, exc, emitted]
process_printer_events_body(text, closedRaises) ==
    LET event == json_loads(text)
        method == Subscript(event.val, "method")
        params == Subscript(event.val, "params")
        level == Subscript(params.val, "level")
        msg == Subscript(params.val, "msg")
        logged == logger_log(level.val, msg.val)
        sent == broadcast_message(event.val, closedRaises)
        reduced == process_event(event.val, PRINTER)
        out(p, r, e, l) == [printer |-> p, received |-> r, exc |-> e, emitted |-> l]
        fail(e) == out(PRINTER, received, e, <<>>)
    IN IF event.exc # "none" THEN fail(event.exc)
       ELSE IF method.exc # "none" THEN fail(method.exc)
       ELSE IF is_log(method.val)
            THEN IF params.exc # "none" THEN fail(params.exc)
                 ELSE IF level.exc # "none" THEN fail(level.exc)
                 ELSE IF msg.exc # "none" THEN fail(msg.exc)
                 ELSE out(PRINTER, received, logged.exc, logged.emitted)
       ELSE IF sent.exc # "none" THEN out(PRINTER, sent.received, sent.exc, <<>>)
       ELSE out(reduced.printer, sent.received, reduced.exc, reduced.emitted)

\* the exceptions the except clause of process_printer_events catches
process_printer_events_caught == {"TypeError"}

\* a get that takes everything that is waiting
queue_drain(queue) == <<>>

\* a get that leaves the text on the queue
queue_peek(queue) == queue

\* FROM_PRINTER.get(): the queue afterwards (the text taken is its head)
queue_get(queue) == Tail(queue)

\* process_printer_events(): one run of the periodic callback
process_printer_events ==
    /\ op' = [name |-> "process_printer_events"]
    /\ ret' = PyNone
    /\ UNCHANGED <<CLIENTS, TO_PRINTER, status, conn, produced>>
    /\ IF FROM_PRINTER = <<>>
       THEN /\ raised' = "none"
            /\ emitted' = <<>>
            /\ UNCHANGED <<FROM_PRINTER, PRINTER, received>>
       ELSE \E r \in { process_printer_events_body(Head(FROM_PRINTER), closedRaises) :
                            closedRaises \in BOOLEAN } :
            /\ FROM_PRINTER' = queue_get(FROM_PRINTER)
            /\ PRINTER' = r.printer
            /\ received' = r.received
            /\ IF r.exc \in process_printer_events_caught
               THEN /\ raised' = "none"
                    /\ emitted' = r.emitted \o <<LogRecord("ERROR", "process_printer_events")>>
               ELSE /\ raised' = r.exc
                    /\ emitted' = r.emitted

(***************************************************************************)
(* The printer process.                                                    *)
(***************************************************************************)
Event(method, params) == JObj([method |-> JStr(method), params |-> JObj(params)])

\* the texts the printer process puts on FROM_PRINTER in this model
Payloads ==
    { JInvalid,
      JArr(<<>>),
      JObj([params |-> JObj(EmptyMap)]),
      JObj([method |-> JStr("zchange")]),
      Event("log", [level |-> JNum(20), msg |-> JStr("m")]),
      Event("state", [new |-> JStr("printing")]),
      Event("state", [new |-> JStr("bogus")]),
      Event("state", EmptyMap),
      Event("temp", [bed |-> JNum(60), nozzle1 |-> JNum(0), nozzle2 |-> JNum(0)]),
      Event("temp", [bed |-> JNum(61)]),
      Event("progress", [current |-> JNum(1), total |-> JNum(2)]),
      Event("progress", [current |-> JNum(3), total |-> JNum(2)]),
      Event("zchange", EmptyMap),
      Event("other", EmptyMap) }

\* the printer process puts a text on FROM_PRINTER
PrinterPut(text) ==
    /\ produced < MaxProduced
    /\ FROM_PRINTER' = Append(FROM_PRINTER, text)
    /\ produced' = produced + 1
    /\ op' = [name |-> "printer_put"]
    /\ ret' = PyNone
    /\ raised' = "none"
    /\ emitted' = <<>>
    /\ UNCHANGED <<CLIENTS, TO_PRINTER, PRINTER, status, conn, received>>

(***************************************************************************)
(* Specifications.  Spec is the whole bus with two clients and a small     *)
(* choice of requests and printer texts; SpecDispatch is the bus with one  *)
(* client, whose connection stays up until it closes, and every request;   *)
(* SpecReducer is the printer-event side of the bus with one client and    *)
(* every printer text.                                                     *)
(***************************************************************************)
\* the requests and printer texts of Spec
CoreRequests ==
    { JObj([method |-> JStr("set_temp"), params |-> JObj([bed |-> JNum(100)])]),
      JObj([method |-> JStr("set_temp"), params |-> JObj([bed |-> JNum(100), fan |-> JNum(1)])]) }

CorePayloads ==
    { Event("log", [level |-> JNum(20), msg |-> JStr("m")]),
      Event("state", [new |-> JStr("printing")]),
      Event("temp", [bed |-> JNum(60), nozzle1 |-> JNum(0), nozzle2 |-> JNum(0)]) }

\* the one client of SpecDispatch and SpecReducer
OneSession == {"s1"}

\* the printer texts of SpecDispatch
DispatchPayloads == { Event("temp", [bed |-> JNum(60), nozzle1 |-> JNum(0), nozzle2 |-> JNum(0)]) }

Next ==
    \/ \E s \in Sessions, m \in CoreRequests : on_message(s, m)
    \/ PrinterGet
    \/ \E s \in Sessions : open(s)
    \/ \E s \in Sessions : connection_lost(s)
    \/ \E s \in Sessions : on_close(s)
    \/ status_get
    \/ process_printer_events
    \/ \E text \in CorePayloads : PrinterPut(text)

Spec == Init /\ [][Next]_vars

NextDispatch ==
    \/ \E s \in OneSession, m \in Requests : on_message(s, m)
    \/ PrinterGet
    \/ \E s \in OneSession : open(s)
    \/ \E s \in OneSession : on_close(s)
    \/ process_printer_events
    \/ \E text \in DispatchPayloads : PrinterPut(text)

SpecDispatch == Init /\ [][NextDispatch]_vars

NextReducer ==
    \/ \E s \in OneSession : open(s)
    \/ \E s \in OneSession : connection_lost(s)
    \/ \E s \in OneSession : on_close(s)
    \/ process_printer_events
    \/ \E text \in Payloads : PrinterPut(text)

SpecReducer == Init /\ [][NextReducer]_vars

\* the printer texts of SpecLoop: not JSON, an event without a method, a state
\* event with an unknown value, a well-formed state event
LoopPayloads ==
    { JInvalid,
      JObj([params |-> JObj(EmptyMap)]),
      Event("state", [new |-> JStr("bogus")]),
      Event("state", [new |-> JStr("printing")]) }

NextLoop ==
    \/ \E s \in OneSession : open(s)
    \/ \E s \in OneSession : connection_lost(s)
    \/ process_printer_events
    \/ \E text \in LoopPayloads : PrinterPut(text)

\* the PeriodicCallback of main() keeps calling process_printer_events: an
\* exception that escapes a run is logged by the callback and the next run is
\* scheduled all the same
SpecLoop == Init /\ [][NextLoop]_vars /\ WF_vars(process_printer_events)

(***************************************************************************)
(* Properties of the command handler (checked under SpecDispatch).         *)
(***************************************************************************)
\* the last element of a non-empty list
Last(list) == list[Len(list)]

\* the handler that ran last was on_message with a set_temp request
AfterSetTemp == op.name = "on_message" /\ op.message \in SetTempRequests

\* C1: after every set_temp call, whatever subset of bed, nozzle1, nozzle2
\* it supplies, the last message on TO_PRINTER is an object with method
\* "set_temp" and params with exactly the keys bed, nozzle1, nozzle2; a
\* supplied parameter carries the supplied value, an omitted one carries
\* null and never a number.
C1_SetTempOmittedIsNull ==
    AfterSetTemp =>
        /\ TO_PRINTER # <<>>
        /\ LET sent == Last(TO_PRINTER)
               supplied == op.message.v["params"].v
           IN /\ sent.json = "object"
              /\ DOMAIN sent.v = {"method", "params"}
              /\ sent.v["method"] = JStr("set_temp")
              /\ sent.v["params"].json = "object"
              /\ DOMAIN sent.v["params"].v = SetTempParams
              /\ \A k \in SetTempParams :
                    IF k \in DOMAIN supplied
                    THEN sent.v["params"].v[k] = supplied[k]
                    ELSE /\ sent.v["params"].v[k].json = "null"
                         /\ sent.v["params"].v[k].json # "number"
                         /\ json_loads(sent).val.v["params"].v[k] = PyNone

\* a set_temp call that supplies bed = 0 alone has put its message
C1_Witness ==
    /\ AfterSetTemp
    /\ op.message.v["params"].v = [bed |-> JNum(0)]
    /\ Len(TO_PRINTER) = 1
    /\ ret = JObj([result |-> JBool(TRUE)])

\* the reply of the handler that ran last reports success
Succeeded(o, r) == o.name = "on_message" /\ r.json = "object" /\ "result" \in DOMAIN r.v

\* C2: every successful call of the command handler appends exactly one
\* message to the tail of TO_PRINTER, keeps the messages already there in
\* place and order, and returns success without taking anything from
\* FROM_PRINTER or touching the cached printer state.
C2_OneMessagePerCall ==
    [][Succeeded(op', ret') =>
          /\ Len(TO_PRINTER') = Len(TO_PRINTER) + 1
          /\ SubSeq(TO_PRINTER', 1, Len(TO_PRINTER)) = TO_PRINTER
          /\ ret' = JObj([result |-> JBool(TRUE)])
          /\ raised' = "none"
          /\ FROM_PRINTER' = FROM_PRINTER
          /\ PRINTER' = PRINTER]_vars

\* a call has succeeded while nothing had ever arrived from the printer
C2_Witness ==
    /\ Succeeded(op, ret)
    /\ produced = 0
    /\ FROM_PRINTER = <<>>
    /\ Len(TO_PRINTER) = 1

\* the message a motion request is meant to put on TO_PRINTER
MotionExpected(message) ==
    IF message.v["method"] = JStr("move_head_relative")
    THEN JObj([method |-> JStr("move_head_relative"),
               params |-> JObj([x |-> JNum(0), y |-> JNum(0 - 4), z |-> JNum(2)])])
    ELSE JObj([method |-> JStr("home_head"),
               params |-> JObj([x |-> JBool(TRUE), y |-> JBool(TRUE), z |-> JBool(FALSE)])])

\* C3: after a call of move_head_relative or home_head the last message on
\* TO_PRINTER carries the method, the supplied axes, and for each omitted
\* axis 0 (move_head_relative) or true (home_head).
C3_MotionDefaults ==
    (op.name = "on_message" /\ op.message \in MotionRequests) =>
        /\ TO_PRINTER # <<>>
        /\ Last(TO_PRINTER) = MotionExpected(op.message)

(***************************************************************************)
(* Properties of the reducer and the event processor (checked under        *)
(* SpecReducer).                                                           *)
(***************************************************************************)
\* this step is a run of process_printer_events that takes a text
Tick == op'.name = "process_printer_events" /\ FROM_PRINTER # <<>>

\* the text that run takes
Taken == Head(FROM_PRINTER)

\* the text is a JSON object with that method
IsEvent(text, method) ==
    /\ text.json = "object"
    /\ "method" \in DOMAIN text.v
    /\ text.v["method"] = JStr(method)

\* the text is a JSON object with that method and with params
HasParams(text, method) == IsEvent(text, method) /\ "params" \in DOMAIN text.v

\* the run got as far as process_event (the broadcast before it returned)
Reduced == raised' # "WebSocketClosedError"

\* C4: when the reducer processes a temp (a progress) event, PRINTER['temp']
\* (PRINTER['progress']) afterwards is the params of the event exactly, with
\* the keys of the params and no others: replaced, not merged.
C4_FieldReplacedWholesale ==
    [][(Tick /\ Reduced) =>
          /\ HasParams(Taken, "temp") =>
                /\ json_dumps(PRINTER'.temp) = Taken.v["params"]
                /\ DOMAIN PRINTER'.temp.v = DOMAIN Taken.v["params"].v
          /\ HasParams(Taken, "progress") =>
                /\ json_dumps(PRINTER'.progress) = Taken.v["params"]
                /\ DOMAIN PRINTER'.progress.v = DOMAIN Taken.v["params"].v]_vars

\* a temp event with all three readings and then one with bed alone have
\* been processed: the cache holds the second, without nozzle1 and nozzle2
C4_Witness ==
    /\ op.name = "process_printer_events"
    /\ produced = 2
    /\ FROM_PRINTER = <<>>
    /\ PRINTER.temp = PyDict([bed |-> PyInt(61)])
    /\ received["s1"] =
          << JObj([cmd |-> JStr("STATE"), new |-> JStr("disconnected")]),
             Event("temp", [bed |-> JNum(60), nozzle1 |-> JNum(0), nozzle2 |-> JNum(0)]),
             Event("temp", [bed |-> JNum(61)]) >>

\* the text is an event that lacks a required key
Malformed(text) ==
    /\ text.json = "object"
    /\ \/ ~("method" \in DOMAIN text.v)
       \/ ~("params" \in DOMAIN text.v)
       \/ /\ text.v["method"] = JStr("state")
          /\ text.v["params"].json = "object"
          /\ ~("new" \in DOMAIN text.v["params"].v)

\* C5: processing an event that lacks a required key raises nothing past
\* process_printer_events, leaves PRINTER unchanged and logs exactly one
\* record.
C5_MalformedEvent ==
    [][(Tick /\ Malformed(Taken)) =>
          /\ raised' = "none"
          /\ PRINTER' = PRINTER
          /\ Len(emitted') = 1]_vars

\* the text is a state event whose new value is no value of State
UnknownState(text) ==
    /\ HasParams(text, "state")
    /\ text.v["params"].json = "object"
    /\ "new" \in DOMAIN text.v["params"].v
    /\ State(json_decode(text.v["params"].v["new"])).exc # "none"

\* C6: a state event with an unknown state value is recovered locally: the
\* run ends without an exception escaping, something is logged, PRINTER is
\* unchanged and no client is sent the event.
C6_UnknownStateValue ==
    [][(Tick /\ UnknownState(Taken)) =>
          /\ raised' = "none"
          /\ Len(emitted') >= 1
          /\ PRINTER' = PRINTER
          /\ received' = received]_vars

\* C7: a text that is not JSON is recovered locally: no exception escapes
\* the run, something is logged, the text is gone from FROM_PRINTER, no
\* client is sent anything and PRINTER is unchanged.
C7_NotJson ==
    [][(Tick /\ Taken.json = "invalid") =>
          /\ raised' = "none"
          /\ Len(emitted') >= 1
          /\ FROM_PRINTER' = Tail(FROM_PRINTER)
          /\ received' = received
          /\ PRINTER' = PRINTER]_vars

(***************************************************************************)
(* Properties of the client registry (checked under Spec).                 *)
(***************************************************************************)
\* the text is a STATE message of open()
IsStateMessage(text) ==
    /\ text.json = "object"
    /\ "cmd" \in DOMAIN text.v
    /\ text.v["cmd"] = JStr("STATE")

\* C8: open() sends the client one message, {cmd: STATE, new: the state
\* PRINTER holds at that moment}, with no temperatures and no progress; a
\* handler that has not opened has been sent nothing, and whatever is sent
\* to a client later comes after that message and is no STATE message.
C8_JoinMessageFirst ==
    [][\A s \in Sessions :
          /\ (op'.name = "open" /\ op'.session = s) =>
                /\ Len(received'[s]) = 1
                /\ DOMAIN received'[s][1].v = {"cmd", "new"}
                /\ received'[s][1].v["cmd"] = JStr("STATE")
                /\ received'[s][1].v["new"] = json_dumps(PRINTER.state)
          /\ status'[s] = "CONNECTING" => received'[s] = <<>>
          /\ status[s] # "CONNECTING" =>
                /\ Len(received'[s]) >= Len(received[s])
                /\ SubSeq(received'[s], 1, Len(received[s])) = received[s]
                /\ \A i \in (Len(received[s]) + 1)..Len(received'[s]) :
                      ~IsStateMessage(received'[s][i])]_vars

\* a client that joined after the printer went to printing was sent that
\* state first, and an event after it
C8_Witness ==
    /\ Len(received["s2"]) = 2
    /\ received["s2"][1] = JObj([cmd |-> JStr("STATE"), new |-> JStr("printing")])
    /\ ~IsStateMessage(received["s2"][2])
    /\ Len(received["s1"]) >= 1
    /\ received["s1"][1] = JObj([cmd |-> JStr("STATE"), new |-> JStr("disconnected")])

\* the text is one that process_printer_events broadcasts
Broadcast(text) ==
    /\ text.json = "object"
    /\ "method" \in DOMAIN text.v
    /\ text.v["method"] # JStr("log")

\* C9: each broadcast sends the event exactly once to every handler that is
\* in CLIENTS at that moment and whose connection is up, and to no handler
\* that has left.
C9_BroadcastToAllJoined ==
    [][(Tick /\ Broadcast(Taken)) =>
          \A s \in Sessions :
              /\ (InList(CLIENTS, s) /\ conn[s] = "up") =>
                    received'[s] = Append(received[s], Taken)
              /\ ~InList(CLIENTS, s) => received'[s] = received[s]]_vars

\* C10: on_close() for a handler that is not in CLIENTS raises nothing and
\* leaves CLIENTS as it is.
C10_LeaveIdempotent ==
    [][(op'.name = "on_close" /\ ~InList(CLIENTS, op'.session)) =>
          /\ raised' = "none"
          /\ CLIENTS' = CLIENTS]_vars

\* the handler is in CLIENTS and its connection is up
Reachable(s) == InList(CLIENTS, s) /\ conn[s] = "up"

\* C11: when the connection of a handler in CLIENTS has dropped, a
\* broadcast still sends the event to every other handler in CLIENTS,
\* wherever the dropped one stands in the list; the failure does not escape
\* and the dropped handler stays in CLIENTS.
C11_BroadcastBestEffort ==
    [][(/\ Tick
        /\ Broadcast(Taken)
        /\ \E d \in Sessions : InList(CLIENTS, d) /\ conn[d] = "dropped") =>
          /\ \A s \in Sessions :
                Reachable(s) => received'[s] = Append(received[s], Taken)
          /\ raised' # "WebSocketClosedError"
          /\ CLIENTS' = CLIENTS]_vars

\* the cache after the reducer has taken a well-formed event of this model
ReducedAs(text, printer) ==
    /\ (text = Event("state", [new |-> JStr("printing")])) =>
          printer.state = PyState("PRINTING")
    /\ HasParams(text, "temp") => json_dumps(printer.temp) = text.v["params"]
    /\ HasParams(text, "progress") => json_dumps(printer.progress) = text.v["params"]

\* C12: for every text that is JSON and whose method is not log, one run
\* both sends the raw event to every client and passes it to the reducer,
\* whatever the outcome of the other: afterwards every connected client
\* holds the event as its last message and PRINTER reflects the event.
C12_BroadcastAndReduce ==
    [][(Tick /\ Broadcast(Taken)) =>
          /\ \A s \in Sessions :
                Reachable(s) =>
                    /\ Len(received'[s]) = Len(received[s]) + 1
                    /\ Last(received'[s]) = Taken
          /\ ReducedAs(Taken, PRINTER')]_vars

\* C13: a run of process_printer_events takes at most one text: with texts
\* waiting it removes the head and nothing else from FROM_PRINTER; with
\* none waiting it returns at once and changes nothing.
C13_AtMostOnePerTick ==
    [][op'.name = "process_printer_events" =>
          IF FROM_PRINTER = <<>>
          THEN /\ FROM_PRINTER' = <<>>
               /\ PRINTER' = PRINTER
               /\ CLIENTS' = CLIENTS
               /\ TO_PRINTER' = TO_PRINTER
               /\ received' = received
               /\ raised' = "none"
          ELSE /\ Len(FROM_PRINTER') = Len(FROM_PRINTER) - 1
               /\ FROM_PRINTER' = Tail(FROM_PRINTER)]_vars

\* a run has taken the first of two waiting texts and left the second
C13_Witness ==
    /\ op.name = "process_printer_events"
    /\ produced = 2
    /\ Len(FROM_PRINTER) = 1

\* C14: events reach the clients in the order of FROM_PRINTER, none lost,
\* none twice: a client that is and stays connected is sent, by each run,
\* the text the run takes if that text is a JSON event other than log, and
\* nothing otherwise; the texts are taken from the head and put at the
\* tail; PRINTER is updated by the same event in the same run.
C14_FifoToObservers ==
    [][/\ \A s \in Sessions :
            (Reachable(s) /\ status'[s] = "OPEN" /\ conn'[s] = "up") =>
                received'[s] = IF Tick /\ Broadcast(Taken)
                               THEN Append(received[s], Taken)
                               ELSE received[s]
       /\ Tick => FROM_PRINTER' = Tail(FROM_PRINTER)
       /\ (Tick /\ Broadcast(Taken)) => ReducedAs(Taken, PRINTER')
       /\ op'.name = "printer_put" =>
            /\ Len(FROM_PRINTER') = Len(FROM_PRINTER) + 1
            /\ SubSeq(FROM_PRINTER', 1, Len(FROM_PRINTER)) = FROM_PRINTER]_vars

\* the log record of a forwarded printer log event
Forwarded(text) ==
    [level |-> "PRINTER", by |-> "printer",
     lvl |-> json_decode(text.v["params"].v["level"]),
     msg |-> json_decode(text.v["params"].v["msg"])]

\* C15: a log event is written to LOGGER with its level and msg and goes
\* nowhere else: no client is sent anything and PRINTER is unchanged.
C15_LogOnlyLogged ==
    [][(Tick /\ IsEvent(Taken, "log")) =>
          /\ PRINTER' = PRINTER
          /\ received' = received
          /\ (/\ HasParams(Taken, "log")
              /\ Taken.v["params"].json = "object"
              /\ {"level", "msg"} \subseteq DOMAIN Taken.v["params"].v) =>
                /\ emitted' = <<Forwarded(Taken)>>
                /\ raised' = "none"]_vars

\* a log event was processed while a client was connected: the client
\* holds nothing but its STATE message
C15_Witness ==
    /\ op.name = "process_printer_events"
    /\ Len(emitted) = 1
    /\ emitted[1].level = "PRINTER"
    /\ emitted[1].lvl = PyInt(20)
    /\ status["s1"] = "OPEN"
    /\ conn["s1"] = "up"
    /\ Len(received["s1"]) = 1

\* the text is a JSON object with a method other than state, temp, progress
OtherEvent(text) ==
    /\ text.json = "object"
    /\ "method" \in DOMAIN text.v
    /\ text.v["method"] \notin {JStr("state"), JStr("temp"), JStr("progress")}

\* C16: the reducer updates the fields independently: a state event leaves
\* temp and progress alone, a temp event leaves state and progress alone, a
\* progress event leaves state and temp alone, and a zchange event or an
\* event with any other method leaves all of PRINTER alone.
C16_FieldsIndependent ==
    [][Tick =>
          /\ IsEvent(Taken, "state") =>
                PRINTER'.temp = PRINTER.temp /\ PRINTER'.progress = PRINTER.progress
          /\ IsEvent(Taken, "temp") =>
                PRINTER'.state = PRINTER.state /\ PRINTER'.progress = PRINTER.progress
          /\ IsEvent(Taken, "progress") =>
                PRINTER'.state = PRINTER.state /\ PRINTER'.temp = PRINTER.temp
          /\ OtherEvent(Taken) => PRINTER' = PRINTER]_vars

\* a progress event and then a state event have been processed: the state
\* is printing and the progress is still that of the progress event
C16_Witness ==
    /\ op.name = "process_printer_events"
    /\ PRINTER.state = PyState("PRINTING")
    /\ PRINTER.progress = PyDict([current |-> PyInt(3), total |-> PyInt(2)])
    /\ PRINTER.temp = PRINTER0.temp

\* C17: in every reachable state the progress of PRINTER satisfies
\* current <= total whenever total > 0.
C17_ProgressWithinTotal ==
    LET progress == PRINTER.progress
    IN (/\ progress.py = "dict"
        /\ {"current", "total"} \subseteq DOMAIN progress.v
        /\ progress.v["total"].v > 0) =>
          progress.v["current"].v <= progress.v["total"].v

\* C18: in every reachable state the keys of PRINTER['temp'] are exactly
\* bed, nozzle1 and nozzle2.
C18_TempKeysFixed ==
    /\ PRINTER.temp.py = "dict"
    /\ DOMAIN PRINTER.temp.v = {"bed", "nozzle1", "nozzle2"}

\* the handlers other than the reducer's run
NotReducer ==
    {"on_message", "printer_get", "open", "connection_lost", "on_close",
     "status_get", "printer_put"}

\* C19: PRINTER is changed by the reducer only: on_message (a valid set_temp
\* or a request that fails validation), open, on_close, a broadcast and the
\* status query leave every field of it unchanged; the status query also
\* leaves CLIENTS and both queues unchanged and returns the whole of
\* PRINTER: its state, its temp and its progress.
C19_OnlyReducerMutates ==
    [][/\ op'.name \in NotReducer => PRINTER' = PRINTER
       /\ (Tick /\ raised' = "WebSocketClosedError") => PRINTER' = PRINTER
       /\ op'.name = "status_get" =>
            /\ CLIENTS' = CLIENTS
            /\ TO_PRINTER' = TO_PRINTER
            /\ FROM_PRINTER' = FROM_PRINTER
            /\ ret'.json = "object"
            /\ DOMAIN ret'.v = {"state", "temp", "progress"}
            /\ ret'.v["state"] = JStr(StateValue(PRINTER.state.v))
            /\ ret'.v["temp"] = json_dumps(PRINTER.temp)
            /\ ret'.v["progress"] = json_dumps(PRINTER.progress)]_vars

\* the status query has answered with a cache the reducer had updated, with
\* a set_temp command written to TO_PRINTER before it
C19_Witness ==
    /\ op.name = "status_get"
    /\ PRINTER.state = PyState("PRINTING")
    /\ ret.json = "object"
    /\ ret.v["state"] = JStr("printing")
    /\ TO_PRINTER # <<>>

\* C20: with process_printer_events run again and again and finitely many
\* texts put on FROM_PRINTER, every text put is taken in the end and
\* FROM_PRINTER ends up empty for good, whatever the texts before it (not
\* JSON, malformed, a state event with an unknown value).
C20_QueueDrains == <>[](FROM_PRINTER = <<>>)

\* the last of the texts has been taken by a run that a text which is not
\* JSON, or a state event with an unknown value, made raise
C20_Witness ==
    /\ op.name = "process_printer_events"
    /\ raised = "ValueError"
    /\ produced = MaxProduced
    /\ FROM_PRINTER = <<>>

====
